---- MODULE Spec2Model ----
(***************************************************************************)
(* Model of the Sip-It lexer (src/src/sip_it.rs): the Position cursor, the *)
(* Lexer with its cached current_char, make_tokens, make_number and run.   *)
(*                                                                         *)
(* A char is a one-character string; Option<char>::None is the empty       *)
(* string.  A text is a sequence of chars.  Offsets are 0-based as in the  *)
(* source, so the char at offset n is text[n + 1].                         *)
(*                                                                         *)
(* The INT payload is an isize whose range (2^63 - 1) lies outside the     *)
(* integers of the model checker, so integer values are kept as canonical  *)
(* decimal numerals: a sequence of digit values, most significant first,   *)
(* without leading zeros, <<0>> for zero.  A FLOAT payload is kept as the  *)
(* exact decimal it was parsed from (integer numeral and fraction digits   *)
(* without trailing zeros); binary rounding of f64 is not modelled.        *)
(***************************************************************************)
EXTENDS Integers, Sequences, FiniteSets, TLC

\* ---------------------------------------------------------------- bounds
\* Longest text drawn from Alphabet.
MaxLen == 3

\* Characters the short texts are built from.
Alphabet == {" ", "\n", "0", "1", ".", "+", "-", "*", "/", "(", ")", "$"}

\* ------------------------------------------------------------- constants
DIGITS == <<"0", "1", "2", "3", "4", "5", "6", "7", "8", "9">>

None == ""

\* isize::MAX = 2^63 - 1 as a decimal numeral.
ISIZE_MAX == <<9, 2, 2, 3, 3, 7, 2, 0, 3, 6, 8, 5, 4, 7, 7, 5, 8, 0, 7>>

\* ------------------------------------------------------ character classes
\* Variant: the newline is not treated as whitespace.
IsWhitespaceNoNewline(c) == c \in {" ", "\t", "\r"}

\* Variant: only the space is treated as whitespace.
IsWhitespaceSpaceOnly(c) == c = " "

\* char::is_whitespace, restricted to the whitespace characters modelled.
IsWhitespace(c) == c \in {" ", "\n", "\t", "\r"}

\* DIGITS.contains(c) / char::is_ascii_digit
IsDigit(c) == \E i \in 1..Len(DIGITS) : DIGITS[i] = c

DigitVal(c) == (CHOOSE i \in 1..Len(DIGITS) : DIGITS[i] = c) - 1

\* Variant: the ')' arm is missing from the match.
SymbolsNoRParen == {"+", "-", "*", "/", "("}

Symbols == {"+", "-", "*", "/", "(", ")"}

\* The match arms of make_tokens.
SymbolToken(c) ==
    CASE c = "+" -> [type |-> "PLUS"]
      [] c = "-" -> [type |-> "MINUS"]
      [] c = "*" -> [type |-> "MUL"]
      [] c = "/" -> [type |-> "DIV"]
      [] c = "(" -> [type |-> "LPAREN"]
      [] c = ")" -> [type |-> "RPAREN"]

\* ------------------------------------------------------------ Position
PositionNew(idx, ln, col, fn_name, ftxt) ==
    [idx |-> idx, ln |-> ln, col |-> col, fn_name |-> fn_name, ftxt |-> ftxt]

\* Variant: the line counter is not bumped on a newline.
PositionAdvanceNoLine(p, c) ==
    IF c = "\n"
    THEN [p EXCEPT !.idx = p.idx + 1, !.col = 0]
    ELSE [p EXCEPT !.idx = p.idx + 1, !.col = p.col + 1]

\* Variant: the column is not reset on a newline.
PositionAdvanceNoColReset(p, c) ==
    IF c = "\n"
    THEN [p EXCEPT !.idx = p.idx + 1, !.ln = p.ln + 1, !.col = p.col + 1]
    ELSE [p EXCEPT !.idx = p.idx + 1, !.col = p.col + 1]

\* Variant: the column is bumped after the newline test instead of before.
PositionAdvanceColAfter(p, c) ==
    IF c = "\n"
    THEN [p EXCEPT !.idx = p.idx + 1, !.ln = p.ln + 1, !.col = 1]
    ELSE [p EXCEPT !.idx = p.idx + 1, !.col = p.col + 1]

PositionAdvance(p, c) ==
    IF c = "\n"
    THEN [p EXCEPT !.idx = p.idx + 1, !.ln = p.ln + 1, !.col = 0]
    ELSE [p EXCEPT !.idx = p.idx + 1, !.col = p.col + 1]

PositionCopy(p) == PositionNew(p.idx, p.ln, p.col, p.fn_name, p.ftxt)

\* Variant: the character after the cursor is cached.
CharsNthNext(t, n) == IF n + 1 >= 0 /\ n + 1 < Len(t) THEN t[n + 2] ELSE None

\* text.chars().nth(n)
CharsNth(t, n) == IF n >= 0 /\ n < Len(t) THEN t[n + 1] ELSE None

\* --------------------------------------------------------- number parsing
\* a <= b on canonical numerals.
NumLeq(a, b) ==
    \/ Len(a) < Len(b)
    \/ /\ Len(a) = Len(b)
       /\ \/ a = b
          \/ \E k \in 1..Len(a) :
                /\ \A j \in 1..(k - 1) : a[j] = b[j]
                /\ a[k] < b[k]

\* v * 10 + d on canonical numerals.
Mul10Add(v, d) == IF v = <<0>> THEN <<d>> ELSE Append(v, d)

\* str::parse::<isize> on a string of ASCII digits: accumulate digit by
\* digit with checked arithmetic; an empty string or an overflow is Err.
RECURSIVE ParseIntFrom(_, _, _)
ParseIntFrom(acc, s, i) ==
    IF i > Len(s) THEN [ok |-> TRUE, val |-> acc]
    ELSE IF ~IsDigit(s[i]) THEN [ok |-> FALSE, val |-> <<0>>]
    ELSE LET next == Mul10Add(acc, DigitVal(s[i]))
         IN  IF NumLeq(next, ISIZE_MAX)
             THEN ParseIntFrom(next, s, i + 1)
             ELSE [ok |-> FALSE, val |-> <<0>>]

ParseInt(s) ==
    IF Len(s) = 0 THEN [ok |-> FALSE, val |-> <<0>>]
    ELSE ParseIntFrom(<<0>>, s, 1)

RECURSIVE StripTrailingZeros(_)
StripTrailingZeros(ds) ==
    IF Len(ds) > 0 /\ ds[Len(ds)] = 0
    THEN StripTrailingZeros(SubSeq(ds, 1, Len(ds) - 1))
    ELSE ds

RECURSIVE UncheckedNumeral(_, _, _)
UncheckedNumeral(acc, s, i) ==
    IF i > Len(s) THEN acc
    ELSE UncheckedNumeral(Mul10Add(acc, DigitVal(s[i])), s, i + 1)

\* str::parse::<f64> on digits with one decimal point and a leading digit:
\* never fails (a huge literal saturates instead of overflowing).
ParseFloat(s) ==
    LET d == CHOOSE k \in 1..Len(s) : s[k] = "."
        ip == SubSeq(s, 1, d - 1)
        fp == SubSeq(s, d + 1, Len(s))
    IN  [ok |-> Len(ip) + Len(fp) > 0
                 /\ \A k \in 1..Len(s) : k # d => IsDigit(s[k]),
         val |-> [int |-> UncheckedNumeral(<<0>>, ip, 1),
                  frac |-> StripTrailingZeros([k \in 1..Len(fp) |-> DigitVal(fp[k])])]]

\* ---------------------------------------------------------------- Error
ErrorNew(type_, pos_start, pos_end, details) ==
    [type_ |-> type_, pos_start |-> pos_start, pos_end |-> pos_end,
     details |-> details]

NoError == [type_ |-> "None"]

\* The line number printed by impl fmt::Display for Error.
ErrorLine(e) == e.pos_start.ln + 1

\* ---------------------------------------------------------------- inputs
RECURSIVE TextsUpTo(_)
TextsUpTo(n) ==
    IF n = 0 THEN {<<>>}
    ELSE LET shorter == TextsUpTo(n - 1)
         IN  shorter \cup {Append(t, c) : t \in {u \in shorter : Len(u) = n - 1},
                                           c \in Alphabet}

\* Digit runs around isize::MAX, and the scenarios of the specification.
MaxRun == <<"9","2","2","3","3","7","2","0","3","6","8","5","4","7","7","5","8","0","7">>
OverRun == <<"9","2","2","3","3","7","2","0","3","6","8","5","4","7","7","5","8","0","8">>

LongTexts ==
    { MaxRun, OverRun, <<"0">> \o MaxRun, OverRun \o <<"$">>,
      OverRun \o <<".">>, MaxRun \o <<"9">>,
      <<"3"," ","+"," ","4"," ","*"," ","(","2"," ","-"," ","1",")">>,
      <<"5"," ","$"," ","3">>,
      <<"1",".","2",".","3">>,
      <<"1","\n","\n","2","$">>,
      MaxRun \o <<" ", "8">>,
      <<"1",".","5"," ","0","1">>,
      <<"1","1","\n","(","2",")">> }

Texts == TextsUpTo(MaxLen) \cup LongTexts

\* ----------------------------------------------------------------- state
VARIABLES
    text,          \* Lexer.text
    pos,           \* Lexer.pos
    current_char,  \* Lexer.current_char
    tokens,        \* make_tokens: the local Vec<Token>
    num_str,       \* make_number: the local buffer
    dot_count,     \* make_number: the local counter
    pc,            \* "new", "loop", "number", "done", "panic"
    ret,           \* the pair returned by run, once it has returned
    advances       \* number of completed Position::advance calls

vars == <<text, pos, current_char, tokens, num_str, dot_count, pc, ret, advances>>

NotReturned == [returned |-> FALSE]

FN_NAME == "<stdin>"

\* The state in the middle of Lexer::new: the fields are set, advance has
\* not run yet.
Init ==
    /\ text \in Texts
    /\ pos = PositionNew(-1, 0, -1, FN_NAME, text)
    /\ current_char = None
    /\ tokens = <<>>
    /\ num_str = <<>>
    /\ dot_count = 0
    /\ pc = "new"
    /\ ret = NotReturned
    /\ advances = 0

\* Lexer::advance
LexerAdvance ==
    /\ pos' = PositionAdvance(pos, current_char)
    /\ current_char' = CharsNth(text, pos'.idx)
    /\ advances' = advances + 1

\* Lexer::new: the advance at the end of construction; run then calls
\* make_tokens.
LexerNew ==
    /\ pc = "new"
    /\ LexerAdvance
    /\ pc' = "loop"
    /\ UNCHANGED <<text, tokens, num_str, dot_count, ret>>

\* make_tokens, whitespace arm.
SkipWhitespace ==
    /\ pc = "loop"
    /\ current_char # None
    /\ IsWhitespace(current_char)
    /\ LexerAdvance
    /\ UNCHANGED <<text, tokens, num_str, dot_count, pc, ret>>

\* Variant: the digit arm is also taken on a decimal point.
EnterNumberOnDot ==
    /\ pc = "loop"
    /\ current_char # None
    /\ ~IsWhitespace(current_char)
    /\ IsDigit(current_char) \/ current_char = "."
    /\ num_str' = <<>>
    /\ dot_count' = 0
    /\ pc' = "number"
    /\ UNCHANGED <<text, pos, current_char, tokens, ret, advances>>

\* make_tokens, digit arm: enter make_number.
EnterNumber ==
    /\ pc = "loop"
    /\ current_char # None
    /\ ~IsWhitespace(current_char)
    /\ IsDigit(current_char)
    /\ num_str' = <<>>
    /\ dot_count' = 0
    /\ pc' = "number"
    /\ UNCHANGED <<text, pos, current_char, tokens, ret, advances>>

\* Variant: the token is pushed but the cursor is not advanced.
EmitSymbolNoAdvance ==
    /\ pc = "loop"
    /\ current_char # None
    /\ ~IsWhitespace(current_char)
    /\ ~IsDigit(current_char)
    /\ current_char \in Symbols
    /\ tokens' = Append(tokens, SymbolToken(current_char))
    /\ UNCHANGED <<text, pos, current_char, advances, num_str, dot_count, pc, ret>>

\* make_tokens, the six fixed-token arms.
EmitSymbol ==
    /\ pc = "loop"
    /\ current_char # None
    /\ ~IsWhitespace(current_char)
    /\ ~IsDigit(current_char)
    /\ current_char \in Symbols
    /\ tokens' = Append(tokens, SymbolToken(current_char))
    /\ LexerAdvance
    /\ UNCHANGED <<text, num_str, dot_count, pc, ret>>

\* Variant: the accumulated tokens are returned next to the error.
IllegalCharKeepsTokens ==
    /\ pc = "loop"
    /\ current_char # None
    /\ ~IsWhitespace(current_char)
    /\ ~IsDigit(current_char)
    /\ current_char \notin Symbols
    /\ LET pos_start == PositionCopy(pos)
           char_str == current_char
       IN  /\ LexerAdvance
           /\ ret' = [returned |-> TRUE,
                      tokens |-> tokens,
                      err |-> ErrorNew("Illegal Char Error", pos_start,
                                       PositionCopy(pos'), char_str)]
    /\ pc' = "done"
    /\ UNCHANGED <<text, tokens, num_str, dot_count>>

\* Variant: pos_start is a reference to the live cursor, not a copy.
IllegalCharAliasedStart ==
    /\ pc = "loop"
    /\ current_char # None
    /\ ~IsWhitespace(current_char)
    /\ ~IsDigit(current_char)
    /\ current_char \notin Symbols
    /\ LET char_str == current_char
       IN  /\ LexerAdvance
           /\ ret' = [returned |-> TRUE,
                      tokens |-> <<>>,
                      err |-> ErrorNew("Illegal Char Error", PositionCopy(pos'),
                                       PositionCopy(pos'), char_str)]
    /\ pc' = "done"
    /\ UNCHANGED <<text, tokens, num_str, dot_count>>

\* make_tokens, the default arm: return (vec![], Some(Error)).  The local
\* tokens vector is dropped, not returned.
IllegalChar ==
    /\ pc = "loop"
    /\ current_char # None
    /\ ~IsWhitespace(current_char)
    /\ ~IsDigit(current_char)
    /\ current_char \notin Symbols
    /\ LET pos_start == PositionCopy(pos)
           char_str == current_char
       IN  /\ LexerAdvance
           /\ ret' = [returned |-> TRUE,
                      tokens |-> <<>>,
                      err |-> ErrorNew("Illegal Char Error", pos_start,
                                       PositionCopy(pos'), char_str)]
    /\ pc' = "done"
    /\ UNCHANGED <<text, tokens, num_str, dot_count>>

\* make_tokens, loop exit: return (tokens, None).
ReturnTokens ==
    /\ pc = "loop"
    /\ current_char = None
    /\ ret' = [returned |-> TRUE, tokens |-> tokens, err |-> NoError]
    /\ pc' = "done"
    /\ UNCHANGED <<text, pos, current_char, tokens, num_str, dot_count, advances>>

\* make_number, loop body on an ASCII digit.
NumberDigit ==
    /\ pc = "number"
    /\ current_char # None
    /\ IsDigit(current_char)
    /\ num_str' = Append(num_str, current_char)
    /\ LexerAdvance
    /\ UNCHANGED <<text, tokens, dot_count, pc, ret>>

\* Variant: every decimal point is accumulated, dot_count is not tested.
NumberDotEvery ==
    /\ pc = "number"
    /\ current_char # None
    /\ ~IsDigit(current_char)
    /\ current_char = "."
    /\ dot_count' = 1
    /\ num_str' = Append(num_str, ".")
    /\ LexerAdvance
    /\ UNCHANGED <<text, tokens, pc, ret>>

\* Variant: the decimal point is accumulated but the cursor is not advanced.
NumberDotNoAdvance ==
    /\ pc = "number"
    /\ current_char # None
    /\ ~IsDigit(current_char)
    /\ current_char = "."
    /\ dot_count # 1
    /\ dot_count' = dot_count + 1
    /\ num_str' = Append(num_str, ".")
    /\ UNCHANGED <<text, pos, current_char, advances, tokens, pc, ret>>

\* make_number, loop body on the first decimal point.
NumberDot ==
    /\ pc = "number"
    /\ current_char # None
    /\ ~IsDigit(current_char)
    /\ current_char = "."
    /\ dot_count # 1
    /\ dot_count' = dot_count + 1
    /\ num_str' = Append(num_str, ".")
    /\ LexerAdvance
    /\ UNCHANGED <<text, tokens, pc, ret>>

\* make_number leaves its loop: end of input, a second decimal point, or
\* any other character.
NumberLoopExit ==
    /\ pc = "number"
    /\ \/ current_char = None
       \/ /\ current_char # None
          /\ ~IsDigit(current_char)
          /\ current_char = "." => dot_count = 1

\* The two expect() calls of make_number: does the parse return Ok?
ParseOk(s, dc) == IF dc = 0 THEN ParseInt(s).ok ELSE ParseFloat(s).ok

\* Variant: the character that ends the number is consumed as well.
NumberIntConsumes ==
    /\ NumberLoopExit
    /\ dot_count = 0
    /\ ParseOk(num_str, dot_count)
    /\ tokens' = Append(tokens, [type |-> "INT", val |-> ParseInt(num_str).val])
    /\ pc' = "loop"
    /\ LexerAdvance
    /\ UNCHANGED <<text, num_str, dot_count, ret>>

\* make_number, dot_count == 0: parse as isize, the token is pushed.
NumberInt ==
    /\ NumberLoopExit
    /\ dot_count = 0
    /\ ParseOk(num_str, dot_count)
    /\ tokens' = Append(tokens, [type |-> "INT", val |-> ParseInt(num_str).val])
    /\ pc' = "loop"
    /\ UNCHANGED <<text, pos, current_char, num_str, dot_count, ret, advances>>

\* make_number, dot_count != 0: parse as f64, the token is pushed.
NumberFloat ==
    /\ NumberLoopExit
    /\ dot_count # 0
    /\ ParseOk(num_str, dot_count)
    /\ tokens' = Append(tokens, [type |-> "FLOAT", val |-> ParseFloat(num_str).val])
    /\ pc' = "loop"
    /\ UNCHANGED <<text, pos, current_char, num_str, dot_count, ret, advances>>

\* make_number: the parse returns Err and expect() panics; run never returns.
NumberPanic ==
    /\ NumberLoopExit
    /\ ~ParseOk(num_str, dot_count)
    /\ pc' = "panic"
    /\ UNCHANGED <<text, pos, current_char, tokens, num_str, dot_count, ret, advances>>

\* ------------------------------------------------------- run as a function
\* make_number from offset i with buffer buf and dot_count dc: the offset it
\* stops at, whether the parse is Ok, and the token.
RECURSIVE MakeNumber(_, _, _, _)
MakeNumber(t, i, buf, dc) ==
    LET c == CharsNth(t, i)
    IN  IF c # None /\ IsDigit(c) THEN MakeNumber(t, i + 1, Append(buf, c), dc)
        ELSE IF c = "." /\ dc # 1 THEN MakeNumber(t, i + 1, Append(buf, "."), dc + 1)
        ELSE [idx |-> i,
              ok |-> ParseOk(buf, dc),
              token |-> IF dc = 0
                        THEN [type |-> "INT", val |-> ParseInt(buf).val]
                        ELSE [type |-> "FLOAT", val |-> ParseFloat(buf).val]]

\* make_tokens from offset i with the tokens pushed so far: "ok" with the
\* tokens, "error" with none, or "panic" when expect() aborts.
RECURSIVE MakeTokens(_, _, _)
MakeTokens(t, i, toks) ==
    LET c == CharsNth(t, i)
    IN  IF c = None THEN [outcome |-> "ok", tokens |-> toks]
        ELSE IF IsWhitespace(c) THEN MakeTokens(t, i + 1, toks)
        ELSE IF IsDigit(c)
        THEN LET n == MakeNumber(t, i, <<>>, 0)
             IN  IF n.ok THEN MakeTokens(t, n.idx, Append(toks, n.token))
                 ELSE [outcome |-> "panic", tokens |-> <<>>]
        ELSE IF c \in Symbols THEN MakeTokens(t, i + 1, Append(toks, SymbolToken(c)))
        ELSE [outcome |-> "error", tokens |-> <<>>]

\* run(fn_name, text), without the positions.
Tokenize(t) == MakeTokens(t, 0, <<>>)

Next ==
    \/ LexerNew
    \/ SkipWhitespace
    \/ EnterNumber
    \/ EmitSymbol
    \/ IllegalChar
    \/ ReturnTokens
    \/ NumberDigit
    \/ NumberDot
    \/ NumberInt
    \/ NumberFloat
    \/ NumberPanic

Spec == Init /\ [][Next]_vars

\* ======================================================================
\* Properties
\* ======================================================================
Ended == pc \in {"done", "panic"}

Failed == ret.returned /\ ret.err # NoError

Succeeded == ret.returned /\ ret.err = NoError

WhitespaceChars == {" ", "\t", "\n", "\r"}
DigitChars == {"0", "1", "2", "3", "4", "5", "6", "7", "8", "9"}
SymbolChars == {"+", "-", "*", "/", "(", ")"}
PlainChars == WhitespaceChars \cup DigitChars \cup SymbolChars

\* C1: every run ends by returning either tokens and no error, or no tokens
\* and one Illegal Char error; never both, never neither.
C1_OneOutcome ==
    Ended => /\ ret.returned
             /\ \/ ret.err = NoError
                \/ /\ ret.tokens = <<>>
                   /\ ret.err.type_ = "Illegal Char Error"

\* C2: an unrecognized character at the top level is a hard stop: the step
\* that meets it returns at once with no tokens and that character as the
\* detail, and the cursor stays one past the character ever after.
C2_HardStop ==
    /\ [][(pc = "loop" /\ current_char # None /\ current_char \notin PlainChars)
            => /\ pc' = "done"
               /\ ret'.returned
               /\ ret'.tokens = <<>>
               /\ ret'.err.details = current_char
               /\ pos'.idx = pos.idx + 1]_vars
    /\ [](Failed => /\ pc = "done"
                    /\ ret.tokens = <<>>
                    /\ ret.err.pos_start.idx \in 0..(Len(text) - 1)
                    /\ ret.err.details = text[ret.err.pos_start.idx + 1]
                    /\ pos.idx = ret.err.pos_start.idx + 1
                    /\ advances = ret.err.pos_start.idx + 2)
    /\ [][pc = "done" => UNCHANGED vars]_vars

C2_Witness ==
    /\ Failed
    /\ tokens # <<>>
    /\ pos.idx < Len(text)

\* C3 as stated: an error is returned exactly when the text holds a character
\* outside {whitespace, ASCII digit, + - * / ( )}, and it describes the
\* leftmost one.
FirstIn(S) == CHOOSE i \in S : \A j \in S : i <= j

OutsidePlain == {i \in 1..Len(text) : text[i] \notin PlainChars}

C3_Original ==
    Ended => /\ Failed <=> OutsidePlain # {}
             /\ Failed => /\ ret.err.pos_start.idx + 1 = FirstIn(OutsidePlain)
                          /\ ret.err.details = text[FirstIn(OutsidePlain)]

\* Start of the maximal run of digits that ends right before index i.
DigitRunStart(t, i) ==
    CHOOSE s \in 1..i : /\ \A k \in s..(i - 1) : t[k] \in DigitChars
                        /\ s = 1 \/ t[s - 1] \notin DigitChars

\* A decimal point that directly follows a run of digits which is not
\* itself directly preceded by a decimal point.
NumberDotAt(t, i) ==
    /\ t[i] = "."
    /\ DigitRunStart(t, i) < i
    /\ DigitRunStart(t, i) = 1 \/ t[DigitRunStart(t, i) - 1] # "."

Unrecognized ==
    {i \in 1..Len(text) : text[i] \notin PlainChars /\ ~NumberDotAt(text, i)}

\* C3, amended: no error is returned for a text all of whose characters are
\* whitespace, digits, + - * / ( ) or the decimal point of a number; no
\* success is returned for a text that holds another character; a returned
\* error describes the leftmost such character.
C3_FirstUnrecognized ==
    ret.returned =>
        /\ Failed <=> Unrecognized # {}
        /\ Failed => /\ ret.err.pos_start.idx + 1 = FirstIn(Unrecognized)
                     /\ ret.err.details = text[FirstIn(Unrecognized)]

C3_Witness ==
    /\ Failed
    /\ \E i \in 1..ret.err.pos_start.idx : NumberDotAt(text, i)

\* Reference tokenization of a text of whitespace, digits and symbols.
RefDigit == "0" :> 0 @@ "1" :> 1 @@ "2" :> 2 @@ "3" :> 3 @@ "4" :> 4 @@
            "5" :> 5 @@ "6" :> 6 @@ "7" :> 7 @@ "8" :> 8 @@ "9" :> 9

RefSymbol == "+" :> "PLUS" @@ "-" :> "MINUS" @@ "*" :> "MUL" @@
             "/" :> "DIV" @@ "(" :> "LPAREN" @@ ")" :> "RPAREN"

RECURSIVE StripLeadingZeros(_)
StripLeadingZeros(ds) ==
    IF Len(ds) > 1 /\ ds[1] = 0 THEN StripLeadingZeros(Tail(ds)) ELSE ds

\* Decimal value of a non-empty run of digit characters.
DecimalValue(run) == StripLeadingZeros([k \in 1..Len(run) |-> RefDigit[run[k]]])

\* Last index of the maximal run of digits starting at index i.
DigitRunEnd(t, i) ==
    CHOOSE e \in i..Len(t) : /\ \A k \in i..e : t[k] \in DigitChars
                             /\ e = Len(t) \/ t[e + 1] \notin DigitChars

RECURSIVE RefTokens(_, _)
RefTokens(t, i) ==
    IF i > Len(t) THEN <<>>
    ELSE IF t[i] \in WhitespaceChars THEN RefTokens(t, i + 1)
    ELSE IF t[i] \in DigitChars
    THEN <<[type |-> "INT", val |-> DecimalValue(SubSeq(t, i, DigitRunEnd(t, i)))]>>
            \o RefTokens(t, DigitRunEnd(t, i) + 1)
    ELSE <<[type |-> RefSymbol[t[i]]]>> \o RefTokens(t, i + 1)

PlainText == \A i \in 1..Len(text) : text[i] \in PlainChars

\* C4: on a text of whitespace, digits and + - * / ( ) the run succeeds and
\* returns the reference tokenization.
C4_Reference ==
    (Ended /\ PlainText) => /\ Succeeded
                            /\ ret.tokens = RefTokens(text, 1)

\* Exact decimal of a span of digits with one decimal point.
RefFloat(span) ==
    LET d == CHOOSE k \in 1..Len(span) : span[k] = "."
        fp == SubSeq(span, d + 1, Len(span))
    IN  [int |-> DecimalValue(SubSeq(span, 1, d - 1)),
         frac |-> StripTrailingZeros([k \in 1..Len(fp) |-> RefDigit[fp[k]]])]

\* C5: number scanning that stands on a second decimal point returns a FLOAT
\* for the span before that point without consuming it, and the next
\* top-level step fails on that point with detail "." at its offset.
C5_SecondDot ==
    /\ [][(pc = "number" /\ current_char = "." /\ dot_count = 1)
            => LET start == pos.idx - Len(num_str)
                   span == SubSeq(text, start + 1, pos.idx)
               IN  /\ start >= 0
                   /\ span = num_str
                   /\ span[1] \in DigitChars
                   /\ Cardinality({k \in 1..Len(span) : span[k] = "."}) = 1
                   /\ start = 0 \/ text[start] \notin DigitChars \cup {"."}
                   /\ tokens' = Append(tokens, [type |-> "FLOAT", val |-> RefFloat(span)])
                   /\ pc' = "loop"
                   /\ pos' = pos
                   /\ current_char' = "."
                   /\ ~ret'.returned]_vars
    /\ [][(pc = "loop" /\ current_char = ".")
            => /\ pc' = "done"
               /\ ret'.returned
               /\ ret'.tokens = <<>>
               /\ ret'.err.type_ = "Illegal Char Error"
               /\ ret'.err.details = "."
               /\ ret'.err.pos_start.idx = pos.idx
               /\ text[pos.idx + 1] = "."]_vars

C5_Witness ==
    /\ Failed
    /\ ret.err.details = "."
    /\ tokens # <<>>
    /\ tokens[Len(tokens)].type = "FLOAT"
    /\ ret.err.pos_start.idx >= 1
    /\ text[ret.err.pos_start.idx] \in DigitChars \cup {"."}

WhitespaceText == \A i \in 1..Len(text) : text[i] \in WhitespaceChars

\* C6: a text of whitespace only, the empty text included, runs to the end
\* and returns no tokens and no error.
C6_WhitespaceOnly ==
    WhitespaceText =>
        /\ pc \in {"new", "loop", "done"}
        /\ tokens = <<>>
        /\ pc # "done" => ENABLED Next
        /\ pc = "done" => ret.returned /\ ret.tokens = <<>> /\ ret.err = NoError

C6_Witness ==
    /\ WhitespaceText
    /\ pc = "done"
    /\ \E i \in 1..Len(text) : text[i] = "\n"
    /\ \E i \in 1..Len(text) : text[i] = " "

\* C7: no run aborts: whenever make_number leaves its loop the buffer
\* parses.
C7_NeverAborts ==
    /\ pc # "panic"
    /\ NumberLoopExit => ParseOk(num_str, dot_count)

\* C8: in a returned error pos_start is the cursor as it stood on the
\* offending character and pos_end is pos_start advanced by one character.
C8_ErrorSpan ==
    /\ [][(~ret.returned /\ ret'.returned /\ ret'.err # NoError)
            => /\ ret'.err.pos_start = pos
               /\ ret'.err.pos_end = pos'
               /\ ret'.err.details = current_char]_vars
    /\ [](Failed => /\ ret.err.pos_end.idx = ret.err.pos_start.idx + 1
                    /\ ret.err.pos_end.col = ret.err.pos_start.col + 1
                    /\ ret.err.pos_end.ln = ret.err.pos_start.ln
                    /\ ret.err.pos_start.idx \in 0..(Len(text) - 1)
                    /\ text[ret.err.pos_start.idx + 1] = ret.err.details)

C8_Witness ==
    /\ Failed
    /\ ret.err.pos_start.idx >= 1
    /\ ret.err.pos_start.ln >= 1

\* C9: the line printed for an error is one plus the number of newlines
\* before the offending character.
C9_ErrorLine ==
    Failed => ErrorLine(ret.err) =
                1 + Cardinality({i \in 1..ret.err.pos_start.idx : text[i] = "\n"})

C9_Witness ==
    /\ Failed
    /\ ErrorLine(ret.err) >= 2

\* C10: the offset is the number of completed advances minus one; the cursor
\* moves only by an advance, which adds one to the offset and, on the
\* character passed to it, either starts a new line at column 0 or adds one
\* to the column.
C10_Advance ==
    /\ [](pos.idx = advances - 1)
    /\ [][\/ /\ advances' = advances
             /\ pos' = pos
             /\ current_char' = current_char
          \/ /\ advances' = advances + 1
             /\ pos'.idx = pos.idx + 1
             /\ IF current_char = "\n"
                THEN pos'.col = 0 /\ pos'.ln = pos.ln + 1
                ELSE pos'.col = pos.col + 1 /\ pos'.ln = pos.ln]_vars

C10_Witness ==
    /\ advances >= 3
    /\ pos.col = 0
    /\ pos.ln >= 1

\* The span of the text that number scanning has accumulated so far.
ScanStart == pos.idx - Len(num_str)
ScanSpan == SubSeq(text, ScanStart + 1, pos.idx)
SpanDots(span) == Cardinality({k \in 1..Len(span) : span[k] = "."})

\* C11: when number scanning stops it has consumed the maximal span of
\* digits with at most one decimal point that starts at the digit it was
\* entered on, it pushes exactly one token for it, INT without a decimal
\* point and FLOAT with one, and the character it stopped on is still the
\* current character.
C11_NumberScan ==
    [][NumberLoopExit
        => /\ ScanStart >= 0
           /\ ScanSpan = num_str
           /\ Len(ScanSpan) >= 1
           /\ ScanSpan[1] \in DigitChars
           /\ \A k \in 1..Len(ScanSpan) : ScanSpan[k] \in DigitChars \cup {"."}
           /\ SpanDots(ScanSpan) <= 1
           /\ ScanStart = 0 \/ text[ScanStart] \notin DigitChars \cup {"."}
           /\ \/ pos.idx = Len(text) /\ current_char = None
              \/ /\ pos.idx < Len(text)
                 /\ current_char = text[pos.idx + 1]
                 /\ current_char \notin DigitChars
                 /\ current_char = "." => SpanDots(ScanSpan) = 1
           /\ tokens' = Append(tokens,
                               IF SpanDots(ScanSpan) = 0
                               THEN [type |-> "INT", val |-> DecimalValue(ScanSpan)]
                               ELSE [type |-> "FLOAT", val |-> RefFloat(ScanSpan)])
           /\ pc' = "loop"
           /\ pos' = pos
           /\ current_char' = current_char]_vars

\* The next step of the run classifies the current character.
Examining == pc \in {"loop", "number"} /\ current_char # None

\* C12 as stated: the offset never decreases and no character is up for
\* classification a second time.
C12_Original ==
    /\ [][pos'.idx >= pos.idx]_vars
    /\ [][(Examining /\ Examining') => pos'.idx # pos.idx]_vars

\* C12, amended: the offset never decreases; only the character at the
\* cursor is ever classified, so a character the cursor has passed is never
\* examined again; a character is classified a second time only as the first
\* digit of a number (top level, then number scanning) or as the character
\* that ends a number (number scanning, then top level), and that second
\* classification moves the cursor on or ends the run.
C12_SinglePass ==
    /\ [][pos'.idx >= pos.idx]_vars
    /\ [](Examining => pos.idx \in 0..(Len(text) - 1) /\ current_char = text[pos.idx + 1])
    /\ [][(Examining /\ Examining' /\ pos'.idx = pos.idx)
            => \/ pc = "loop" /\ pc' = "number" /\ current_char \in DigitChars
               \/ pc = "number" /\ pc' = "loop" /\ current_char \notin DigitChars]_vars
    /\ [][(pc = "number" /\ current_char \in DigitChars) => pos'.idx = pos.idx + 1]_vars
    /\ [][(pc = "loop" /\ current_char # None /\ current_char \notin DigitChars)
            => pos'.idx = pos.idx + 1]_vars

C12_Witness ==
    /\ pc = "loop"
    /\ current_char \in SymbolChars
    /\ Len(num_str) >= 2
    /\ ScanStart >= 0
    /\ ScanSpan = num_str

\* C13: the buffer make_number hands to the parser is non-empty, holds only
\* digits and at most one decimal point, and starts with a digit; number
\* scanning is entered on a digit only.
C13_Buffer ==
    /\ (pc = "number" /\ num_str = <<>>) => current_char \in DigitChars
    /\ NumberLoopExit
        => /\ Len(num_str) >= 1
           /\ num_str[1] \in DigitChars
           /\ \A k \in 1..Len(num_str) : num_str[k] \in DigitChars \cup {"."}
           /\ SpanDots(num_str) <= 1
           /\ SpanDots(num_str) = dot_count

C13_Witness ==
    /\ NumberLoopExit
    /\ SpanDots(num_str) = 1
    /\ num_str[Len(num_str)] \in DigitChars
    /\ current_char = "."

\* The character of the text at an offset, absent outside the text.
CharAt(n) == IF n >= 0 /\ n < Len(text) THEN text[n + 1] ELSE None

\* C14: construction leaves the cursor at offset 0, line 0, column 0 with the
\* first character cached; from then on current_char is the character at the
\* offset, absent at or past the end of the text.
C14_CurrentChar ==
    /\ [](pc # "new" => current_char = CharAt(pos.idx))
    /\ [][pc = "new" => /\ pos'.idx = 0 /\ pos'.ln = 0 /\ pos'.col = 0
                        /\ current_char' = CharAt(0)
                        /\ advances' = 1]_vars

C14_Witness ==
    /\ pc = "done"
    /\ Len(text) >= 2
    /\ pos.idx = Len(text)
    /\ current_char = None
    /\ advances = Len(text) + 1

\* A bound on the number of steps the run can still take: three per advance
\* left, and the steps without an advance (entering and leaving make_number,
\* returning) counted by where the run stands.
StepsLeft ==
    3 * (Len(text) + 1 - advances)
    + CASE pc = "new" -> 1
        [] pc = "loop" -> IF current_char \in DigitChars THEN 2 ELSE 1
        [] pc = "number" -> IF \/ current_char \in DigitChars
                               \/ current_char = "." /\ dot_count = 0
                            THEN 1 ELSE 2
        [] OTHER -> 0

\* Some branch of the code applies: at the top level one of its steps is
\* enabled, in make_number the loop either accumulates or exits.
CanStep ==
    IF pc = "number"
    THEN \/ current_char \in DigitChars
         \/ current_char = "." /\ dot_count = 0
         \/ NumberLoopExit
    ELSE ENABLED (LexerNew \/ SkipWhitespace \/ EnterNumber \/ EmitSymbol
                    \/ IllegalChar \/ ReturnTokens)

\* C15: every run ends: each step takes the run closer to its end and a run
\* that has not ended can take a step; each top-level iteration that looks
\* at a character moves the cursor on by at least one character, so there
\* are never more than Len(text) + 1 advances.
C15_Terminates ==
    /\ [](advances <= Len(text) + 1)
    /\ [](StepsLeft >= 0)
    /\ [][StepsLeft' < StepsLeft]_vars
    /\ [](~Ended => CanStep)
    /\ [][(pc = "loop" /\ current_char # None /\ current_char \notin DigitChars)
            => pos'.idx = pos.idx + 1]_vars
    /\ [][(pc = "loop" /\ current_char \in DigitChars)
            => pc' = "number" /\ num_str' = <<>>]_vars
    /\ [](pc = "number" => ScanStart >= 0 /\ pos.idx = ScanStart + Len(num_str))
    /\ [][(pc = "number" /\ pc' # "number") => Len(num_str) >= 1]_vars

C15_Witness ==
    /\ pc = "done"
    /\ advances = Len(text) + 1
    /\ Len(tokens) >= 2
    /\ Len(num_str) >= 1

\* C16: the offset stays within -1..Len(text); only the advance of
\* construction runs while current_char is absent; a successful run ends at
\* offset Len(text), a failing run one past the offending character.
C16_OffsetRange ==
    /\ [](pos.idx \in -1..Len(text))
    /\ [][advances' # advances => (pc = "new" \/ current_char # None)]_vars
    /\ [](Succeeded => pos.idx = Len(text))
    /\ [](Failed => /\ pos.idx = ret.err.pos_start.idx + 1
                    /\ CharAt(ret.err.pos_start.idx) = ret.err.details)

C16_Witness ==
    /\ Succeeded
    /\ Len(text) >= 2
    /\ ret.tokens # <<>>
    /\ ret.tokens[Len(ret.tokens)].type = "INT"
    /\ text[Len(text)] \in DigitChars

\* Index of the last newline among the first n characters, 0 when none.
LastNewline(n) ==
    LET nls == {k \in 1..n : text[k] = "\n"}
    IN  IF nls = {} THEN 0 ELSE CHOOSE k \in nls : \A j \in nls : j <= k

\* C18: once the offset is 0 or more, line is the number of newlines before
\* the offset and column the number of characters between the last of them,
\* or the start of the text, and the offset.
C18_LineColumn ==
    pos.idx >= 0 =>
        /\ pos.ln = Cardinality({k \in 1..pos.idx : text[k] = "\n"})
        /\ pos.col = pos.idx - LastNewline(pos.idx)

C18_Witness ==
    /\ pos.ln >= 1
    /\ pos.col >= 1
    /\ LastNewline(pos.idx) >= 2

\* The outcome of the run that has ended, in the terms of Tokenize.
RunOutcome ==
    IF pc = "panic" THEN [outcome |-> "panic", tokens |-> <<>>]
    ELSE IF ret.err = NoError THEN [outcome |-> "ok", tokens |-> ret.tokens]
    ELSE [outcome |-> "error", tokens |-> ret.tokens]

\* The two parts of the text around the whitespace character at index i.
Before(i) == SubSeq(text, 1, i - 1)
After(i) == SubSeq(text, i + 1, Len(text))

\* C17: when the text is a, one whitespace character, b, and a and b each
\* tokenize without error, the run of the text succeeds with the tokens of a
\* followed by the tokens of b.
C17_Separator ==
    Ended =>
        /\ RunOutcome = Tokenize(text)
        /\ \A i \in 1..Len(text) :
              (/\ text[i] \in WhitespaceChars
               /\ Tokenize(Before(i)).outcome = "ok"
               /\ Tokenize(After(i)).outcome = "ok")
              => /\ Succeeded
                 /\ ret.tokens = Tokenize(Before(i)).tokens \o Tokenize(After(i)).tokens

C17_Witness ==
    /\ Succeeded
    /\ \E i \in 2..(Len(text) - 1) :
          /\ text[i] \in WhitespaceChars
          /\ text[i - 1] \in DigitChars
          /\ text[i + 1] \in DigitChars
          /\ Tokenize(Before(i)).outcome = "ok"
          /\ Tokenize(After(i)).outcome = "ok"
          /\ Len(ret.tokens) = 2

====
